---- MODULE Spec2Model ----
(***************************************************************************)
(* Model of invoices2.py: the invoice PDF data extractor.                  *)
(*                                                                         *)
(* A Python str is a sequence of pieces (single characters for document    *)
(* text, whole literals for the program's fixed messages).  An Optional    *)
(* value is a tagged record: None, Str(s) or a float.  A float is the      *)
(* exact decimal m / 10^e in lowest form.                                  *)
(***************************************************************************)
EXTENDS Integers, Sequences, FiniteSets, TLC

(***************************************************************************)
(* Bounds of the model.                                                    *)
(***************************************************************************)
MaxDocs == 3
MaxRawLen == 3
MaxTextLen == 3

(***************************************************************************)
(* Python values.                                                          *)
(***************************************************************************)
None == [tag |-> "None"]

Str(s) == [tag |-> "str", s |-> s]

Float(m, e) == [tag |-> "float", m |-> m, e |-> e]

\* bool(x) of an Optional[str] / Optional[float] / str value
Truthy(x) ==
    IF x = None THEN FALSE
    ELSE IF x.tag = "str" THEN x.s # <<>>
    ELSE x.m # 0

\* Python's `a or b`
PyOr(a, b) == IF Truthy(a) THEN a ELSE b

(***************************************************************************)
(* Characters.                                                             *)
(***************************************************************************)
DigitChars == <<"0", "1", "2", "3", "4", "5", "6", "7", "8", "9">>

Digits == {DigitChars[i] : i \in 1..Len(DigitChars)}

DigitVal(c) == (CHOOSE i \in 1..Len(DigitChars) : DigitChars[i] = c) - 1

Whitespace == {" ", "\n", "\t"}

\* lower/upper pairs of the letters the patterns use (re.IGNORECASE)
CaseTable ==
    { <<"a", "A">>, <<"c", "C">>, <<"d", "D">>, <<"e", "E">>, <<"f", "F">>,
      <<"i", "I">>, <<"l", "L">>, <<"m", "M">>, <<"n", "N">>, <<"o", "O">>,
      <<"r", "R">>, <<"t", "T">>, <<"u", "U">>, <<"v", "V">>, <<"ú", "Ú">> }

\* the characters a literal c matches under re.IGNORECASE
Ci(c) == {c} \cup {p[1] : p \in {q \in CaseTable : q[2] = c}}
             \cup {p[2] : p \in {q \in CaseTable : q[1] = c}}

(***************************************************************************)
(* Regular expressions: a pattern is a sequence of elements, each a        *)
(* fixed-length unit of character classes repeated greedily min..max       *)
(* times (max = -1: unbounded); capture group 1 runs from element g to     *)
(* the end of the pattern, as in every pattern of class Patterns.          *)
(***************************************************************************)
One(cls) == [unit |-> <<cls>>, min |-> 1, max |-> 1]

Opt(cls) == [unit |-> <<cls>>, min |-> 0, max |-> 1]

Star(cls) == [unit |-> <<cls>>, min |-> 0, max |-> -1]

Plus(cls) == [unit |-> <<cls>>, min |-> 1, max |-> -1]

Rep(cls, lo, hi) == [unit |-> <<cls>>, min |-> lo, max |-> hi]

StarUnit(u) == [unit |-> u, min |-> 0, max |-> -1]

Word(w) == [i \in 1..Len(w) |-> One(Ci(w[i]))]

NoMatch == [ok |-> FALSE, gs |-> 0, end |-> 0]

UnitMatches(unit, text, pos) ==
    /\ pos + Len(unit) <= Len(text)
    /\ \A k \in 1..Len(unit) : text[pos + k] \in unit[k]

\* Backtracking match of elements i.. of pattern p at offset pos of text,
\* cnt repetitions of element i already taken, gs the offset where group 1
\* opened.  Greedy: one more repetition is tried before moving on.
RECURSIVE MatchFrom(_, _, _, _, _, _)
MatchFrom(p, text, i, pos, cnt, gs) ==
    IF i > Len(p.elems) THEN [ok |-> TRUE, gs |-> gs, end |-> pos]
    ELSE
        LET el == p.elems[i]
            g == IF i = p.g /\ cnt = 0 THEN pos ELSE gs
            more == IF (el.max = -1 \/ cnt < el.max) /\ UnitMatches(el.unit, text, pos)
                    THEN MatchFrom(p, text, i, pos + Len(el.unit), cnt + 1, g)
                    ELSE NoMatch
        IN  IF more.ok THEN more
            ELSE IF cnt >= el.min THEN MatchFrom(p, text, i + 1, pos, 0, g)
            ELSE NoMatch

\* re.search(pattern, text, re.IGNORECASE): the match at the leftmost offset
RECURSIVE SearchFrom(_, _, _)
SearchFrom(p, text, start) ==
    IF start > Len(text) THEN NoMatch
    ELSE LET m == MatchFrom(p, text, 1, start, 0, start)
         IN  IF m.ok THEN m ELSE SearchFrom(p, text, start + 1)

re_search(p, text) == SearchFrom(p, text, 0)

\* match.group(1)
group1(m, text) == SubSeq(text, m.gs + 1, m.end)

(***************************************************************************)
(* class Patterns                                                          *)
(***************************************************************************)
LabelTail == <<Star(Whitespace), Opt({"#"}), Star(Whitespace), Opt({":"}),
               Star(Whitespace)>>

ColonTail == <<Star(Whitespace), Opt({":"}), Star(Whitespace)>>

DateBody == <<Rep(Digits, 1, 2), One({"/", "-"}), Rep(Digits, 1, 2),
              One({"/", "-"}), Rep(Digits, 4, 4)>>

MoneyTail == ColonTail \o <<Opt(Ci("r")), Opt({"$"}), Star(Whitespace)>>

Amount == <<Plus(Digits \cup {".", ","})>>

Pat(pre, grp) == [elems |-> pre \o grp, g |-> Len(pre) + 1]

NUMBER ==
    << Pat(<<One({"#"}), Star(Whitespace)>>, <<Plus(Digits)>>),
       Pat(Word(<<"i", "n", "v", "o", "i", "c", "e">>) \o LabelTail, <<Plus(Digits)>>),
       Pat(Word(<<"f", "a", "t", "u", "r", "a">>) \o LabelTail, <<Plus(Digits)>>),
       Pat(<<One(Ci("n")), One(Ci("ú") \cup Ci("u"))>> \o Word(<<"m", "e", "r", "o">>)
           \o ColonTail, <<Plus(Digits)>>) >>

DATE ==
    << Pat(Word(<<"d", "a", "t", "e">>) \o ColonTail, DateBody),
       Pat(Word(<<"d", "a", "t", "a">>) \o ColonTail, DateBody),
       Pat(<<>>, DateBody) >>

VALUE ==
    << Pat(Word(<<"t", "o", "t", "a", "l">>) \o MoneyTail, Amount),
       Pat(Word(<<"v", "a", "l", "o", "r">>) \o MoneyTail, Amount),
       Pat(<<One(Ci("r")), One({"$"}), Star(Whitespace)>>, Amount),
       Pat(<<>>, <<Rep(Digits, 1, 3), StarUnit(<<{"."}, Digits, Digits, Digits>>),
                   One({","}), Rep(Digits, 2, 2)>>) >>

(***************************************************************************)
(* PDFProcessor.find_pattern                                               *)
(***************************************************************************)
\* the pattern whose match lies leftmost in the text, whatever its rank
find_pattern_Leftmost(text, patterns) ==
    LET hits == {i \in 1..Len(patterns) : re_search(patterns[i], text).ok}
    IN  IF hits = {} THEN None
        ELSE LET first == CHOOSE i \in hits : \A j \in hits :
                             \/ re_search(patterns[i], text).gs < re_search(patterns[j], text).gs
                             \/ /\ re_search(patterns[i], text).gs = re_search(patterns[j], text).gs
                                /\ i <= j
             IN  Str(group1(re_search(patterns[first], text), text))

RECURSIVE find_pattern(_, _)
find_pattern(text, patterns) ==
    IF patterns = <<>> THEN None
    ELSE LET match == re_search(Head(patterns), text)
         IN  IF match.ok THEN Str(group1(match, text))
             ELSE find_pattern(text, Tail(patterns))

(***************************************************************************)
(* PDFProcessor.clean_value                                                *)
(***************************************************************************)
Has(c, s) == \E i \in 1..Len(s) : s[i] = c

\* str.replace(old, "") for a single character
Remove(s, old) == SelectSeq(s, LAMBDA c : c # old)

\* str.replace(old, new) for single characters
Replace(s, old, new) == [i \in 1..Len(s) |-> IF s[i] = old THEN new ELSE s[i]]

RECURSIVE DigitsToNat(_)
DigitsToNat(s) ==
    IF s = <<>> THEN 0
    ELSE 10 * DigitsToNat(SubSeq(s, 1, Len(s) - 1)) + DigitVal(s[Len(s)])

RECURSIVE Lowest(_, _)
Lowest(m, e) ==
    IF e > 0 /\ m % 10 = 0 THEN Lowest(m \div 10, e - 1) ELSE Float(m, e)

\* float(s) for s over digits and '.', None standing for ValueError
float(s) ==
    LET dots == {i \in 1..Len(s) : s[i] = "."}
    IN  IF Cardinality(dots) > 1 \/ Len(s) = Cardinality(dots) THEN None
        ELSE IF dots = {} THEN Float(DigitsToNat(s), 0)
        ELSE LET d == CHOOSE i \in dots : TRUE
                 frac == SubSeq(s, d + 1, Len(s))
             IN  Lowest(DigitsToNat(SubSeq(s, 1, d - 1) \o frac), Len(frac))

\* a lone '.' taken for a thousands separator
clean_value_ThousandsDot(value_str) ==
    IF ~Truthy(value_str) THEN None
    ELSE
        LET stripped == SelectSeq(value_str.s, LAMBDA c : c \in Digits \cup {".", ","})
        IN  float(Replace(Remove(stripped, "."), ",", "."))

clean_value(value_str) ==
    IF ~Truthy(value_str) THEN None
    ELSE
        LET stripped == SelectSeq(value_str.s, LAMBDA c : c \in Digits \cup {".", ","})
            cleaned == IF Has(",", stripped) /\ Has(".", stripped)
                       THEN Replace(Remove(stripped, "."), ",", ".")
                       ELSE IF Has(",", stripped)
                       THEN Replace(stripped, ",", ".")
                       ELSE stripped
        IN  float(cleaned)


(***************************************************************************)
(* class Config                                                            *)
(***************************************************************************)
\* Path(r'C:\Users\Felipe\Documents\Projects\python_auto\excel_sheets')
EXCEL_DIR ==
    <<"C:", "Users", "Felipe", "Documents", "Projects", "python_auto", "excel_sheets">>

\* the dict HEADERS: cell reference (column letter, row) -> header text
HEADERS ==
    { <<"A", 1, "Número da fatura">>, <<"B", 1, "Data de emissão">>,
      <<"C", 1, "Valor da fatura">>, <<"D", 1, "Nome do arquivo">>,
      <<"E", 1, "Status">> }

ColumnLetters == <<"A", "B", "C", "D", "E">>

\* openpyxl's ws['A1']: the (row, column) of a cell reference
CellCoord(h) == <<h[2], CHOOSE j \in 1..Len(ColumnLetters) : ColumnLetters[j] = h[1]>>

(***************************************************************************)
(* class InvoiceData                                                       *)
(***************************************************************************)
Processado == <<"Processado">>

PdfVazio == <<"Erro: PDF vazio">>

NaoEncontrado == Str(<<"Não encontrado">>)

\* InvoiceData(filename): the dataclass defaults
InvoiceData(filename) ==
    [filename |-> filename, number |-> None, date |-> None, value |-> None,
     status |-> Processado]

to_row(self) ==
    << PyOr(self.number, NaoEncontrado),
       PyOr(self.date, NaoEncontrado),
       PyOr(self.value, NaoEncontrado),
       Str(self.filename),
       Str(self.status) >>

(***************************************************************************)
(* Documents.  A PDF is what pdfplumber does with it: open() raises, or    *)
(* it has pages whose extract_text() gives a str or None.  console_ok      *)
(* tells whether print() of a line naming the file succeeds (it raises     *)
(* UnicodeEncodeError when the console cannot encode the name).            *)
(***************************************************************************)
Chars(page) == Str(page)

InvoicePage1 == <<"I", "n", "v", "o", "i", "c", "e", " ", "#", ":", " ", "1", "0", "0">>

InvoicePage2 ==
    <<"D", "a", "t", "e", ":", " ", "0", "1", "/", "0", "2", "/", "2", "0", "2", "4", "\n",
      "T", "o", "t", "a", "l", ":", " ", "R", "$", " ", "1", ".", "0", "0", "0", ",", "0", "0">>

ZeroPage ==
    <<"F", "a", "t", "u", "r", "a", " ", "7", " ", "#", "5", " ",
      "V", "a", "l", "o", "r", ":", " ", "0", ",", "0", "0">>

BadValuePage == <<"N", "ú", "m", "e", "r", "o", "4", "2", " ", "R", "$", " ", ",">>

EncodeError == <<"'charmap' codec can't encode character">>

Pdf(raises, pages, console_ok) ==
    [raises |-> raises, pages |-> pages, console_ok |-> console_ok]

PdfSamples ==
    { Pdf(TRUE, <<>>, TRUE),
      Pdf(TRUE, <<>>, FALSE),
      Pdf(FALSE, <<None>>, TRUE),
      Pdf(FALSE, <<None, Chars(<<>>)>>, TRUE),
      Pdf(FALSE, <<Chars(InvoicePage1), Chars(InvoicePage2)>>, TRUE),
      Pdf(FALSE, <<Chars(InvoicePage1), Chars(InvoicePage2)>>, FALSE),
      Pdf(FALSE, <<Chars(ZeroPage)>>, TRUE),
      Pdf(FALSE, <<Chars(BadValuePage)>>, TRUE) }

FileNames == <<"a.pdf", "b.pdf", "c.pdf", "d.pdf", "e.pdf">>

\* the lists PDF_DIR.glob('*.pdf') can give: up to MaxDocs distinct files
Batches ==
    UNION { { [i \in 1..n |-> [name |-> <<FileNames[i]>>, pdf |-> f[i]]]
              : f \in [1..n -> PdfSamples] } : n \in 0..MaxDocs }

(***************************************************************************)
(* PDFProcessor.extract_text                                               *)
(***************************************************************************)
\* "\n".join(page.extract_text() or "" for page in pdf.pages)
RECURSIVE JoinPages(_)
JoinPages(pages) ==
    IF pages = <<>> THEN <<>>
    ELSE IF Len(pages) = 1 THEN PyOr(pages[1], Str(<<>>)).s
    ELSE PyOr(pages[1], Str(<<>>)).s \o <<"\n">> \o JoinPages(Tail(pages))

\* the returned str, or the exception that escapes (raised)
extract_text(pdf_path) ==
    IF pdf_path.pdf.raises
    THEN IF pdf_path.pdf.console_ok
         THEN [raised |-> FALSE, text |-> <<>>, exc |-> <<>>]
         ELSE [raised |-> TRUE, text |-> <<>>, exc |-> EncodeError]
    ELSE [raised |-> FALSE, text |-> JoinPages(pdf_path.pdf.pages), exc |-> <<>>]

(***************************************************************************)
(* PDFProcessor.process_pdf: the record it returns, the calls it made,     *)
(* and whether an exception escaped it (raised).                           *)
(***************************************************************************)
\* `raise` in place of `return invoice` for a failed document
Reraised(invoice, calls) ==
    [raised |-> invoice.status # Processado, invoice |-> invoice, calls |-> calls]

\* lines 99 and 112: return invoice
Returned(invoice, calls) == [raised |-> FALSE, invoice |-> invoice, calls |-> calls]

FieldCalls == <<"find_pattern", "find_pattern", "find_pattern", "clean_value">>

\* line 110: invoice.status = f"Erro: {e}"
Failed(invoice, e) == [invoice EXCEPT !.status = <<"Erro: ">> \o e]

\* a missing field marked as an error of the document
extract_fields_Strict(invoice, text) ==
    LET filled == [invoice EXCEPT
                      !.number = find_pattern(text, NUMBER),
                      !.date = find_pattern(text, DATE),
                      !.value = clean_value(find_pattern(text, VALUE))]
    IN  IF None \in {filled.number, filled.date, filled.value}
        THEN [filled EXCEPT !.status = <<"Erro: ", "campo ausente">>]
        ELSE filled

\* lines 101-104
extract_fields(invoice, text) ==
    LET raw_value == find_pattern(text, VALUE)
    IN  [invoice EXCEPT
            !.number = find_pattern(text, NUMBER),
            !.date = find_pattern(text, DATE),
            !.value = clean_value(raw_value)]

\* process_pdf without the `if not text` return
process_pdf_NoShortCircuit(pdf_path) ==
    LET invoice == InvoiceData(pdf_path.name)
        got == extract_text(pdf_path)
    IN  IF got.raised
        THEN Returned(Failed(invoice, got.exc), <<"extract_text">>)
        ELSE IF pdf_path.pdf.console_ok
        THEN Returned(extract_fields(invoice, got.text), <<"extract_text">> \o FieldCalls)
        ELSE Returned(Failed(extract_fields(invoice, got.text), EncodeError),
                      <<"extract_text">> \o FieldCalls)

process_pdf(pdf_path) ==
    LET invoice == InvoiceData(pdf_path.name)
        got == extract_text(pdf_path)
    IN  IF got.raised
        THEN Returned(Failed(invoice, got.exc), <<"extract_text">>)
        ELSE IF got.text = <<>>
        THEN Returned([invoice EXCEPT !.status = PdfVazio], <<"extract_text">>)
        ELSE IF pdf_path.pdf.console_ok
        THEN Returned(extract_fields(invoice, got.text), <<"extract_text">> \o FieldCalls)
        ELSE Returned(Failed(extract_fields(invoice, got.text), EncodeError),
                      <<"extract_text">> \o FieldCalls)

(***************************************************************************)
(* PDFProcessor.create_excel                                               *)
(***************************************************************************)
\* the cells written before the one at `stop`, in the order of the loops
CellsBefore(invoices, stop) ==
    LET coords == {CellCoord(h) : h \in HEADERS}
                  \cup { rc \in (2..(Len(invoices) + 1)) \X (1..Len(ColumnLetters)) :
                           rc[1] < stop[1] \/ (rc[1] = stop[1] /\ rc[2] < stop[2]) }
    IN  [rc \in coords |->
            IF rc[1] = 1
            THEN Str(<<(CHOOSE h \in HEADERS : CellCoord(h) = rc)[3]>>)
            ELSE to_row(invoices[rc[1] - 1])[rc[2]]]

Workbook(cells) == [tag |-> "Workbook", title |-> "Invoices", cells |-> cells]

\* fault: "none", "Workbook" (the constructor raises) or <<row, column>> of
\* the cell whose write raises.  The value handed to the caller, or the
\* exception that escapes.
create_excel(invoices, fault) ==
    IF fault = <<"none">> THEN [raised |-> FALSE, wb |-> None]
    ELSE IF fault = <<"Workbook">> THEN [raised |-> TRUE, wb |-> None]
    ELSE [raised |-> FALSE, wb |-> Workbook(CellsBefore(invoices, fault))]

Faults(invoices) ==
    {<<"none">>, <<"Workbook">>}
        \cup ((2..(Len(invoices) + 1)) \X (1..Len(ColumnLetters)))

(***************************************************************************)
(* PDFProcessor.run                                                        *)
(***************************************************************************)
\* datetime.now().strftime("%Y%m%d_%H%M%S")
Timestamps == {"20240101_120000", "20240101_120001"}

report_name(timestamp) == <<"invoices_", timestamp, ".xlsx">>

\* self.config.EXCEL_DIR / f'invoices_{timestamp}.xlsx', as path components
primary_path(timestamp) == [i \in 1..Len(EXCEL_DIR) |-> <<EXCEL_DIR[i]>>]
                               \o <<report_name(timestamp)>>

\* the fallback written to the configured directory again
fallback_path_SameDir(timestamp) == primary_path(timestamp)

\* Path(f'invoices_{timestamp}.xlsx')
fallback_path(timestamp) == <<report_name(timestamp)>>

VARIABLES
    env,          \* the file system: which of run's validations succeed
    pc,           \* where run is
    pdf_files,    \* the globbed list
    invoices,     \* the records of the documents processed so far
    calls,        \* per document, the calls process_pdf made
    excel_fault,  \* what went wrong inside create_excel
    wb,           \* what create_excel returned
    timestamp,
    excel_path,
    attempts,     \* the wb.save calls made, in order
    saved,        \* the files written
    ret,          \* "running", "True", "False", or "raised" (an exception left run)
    probe         \* a single application of a pure method

vars == <<env, pc, pdf_files, invoices, calls, excel_fault, wb, timestamp, excel_path,
          attempts, saved, ret, probe>>

Idle == [fn |-> "idle", text |-> <<>>, patterns |-> <<>>, value |-> None, ret |-> None]

Envs == [pdf_dir_exists : BOOLEAN, mkdir_ok : BOOLEAN]

Start ==
    /\ pc = "start"
    /\ pdf_files = <<>>
    /\ invoices = <<>>
    /\ calls = <<>>
    /\ excel_fault = <<"none">>
    /\ wb = None
    /\ timestamp = ""
    /\ excel_path = <<>>
    /\ attempts = <<>>
    /\ saved = {}
    /\ ret = "running"

Init == env \in Envs /\ Start /\ probe = Idle

Return(value) == pc' = "done" /\ ret' = value

\* lines 137-149: the validations and the glob
Validate ==
    /\ pc = "start"
    /\ IF ~env.pdf_dir_exists \/ ~env.mkdir_ok
       THEN Return("False") /\ UNCHANGED pdf_files
       ELSE \E files \in Batches :
               /\ pdf_files' = files
               /\ IF files = <<>> THEN Return("False")
                  ELSE pc' = "process" /\ UNCHANGED ret
    /\ UNCHANGED <<env, invoices, calls, excel_fault, wb, timestamp, excel_path, attempts, saved,
                   probe>>

\* line 152: one iteration of the list comprehension
ProcessPdf ==
    /\ pc = "process"
    /\ LET i == Len(invoices) + 1
           r == process_pdf(pdf_files[i])
       IN  IF r.raised
           THEN Return("False") /\ UNCHANGED <<invoices, calls>>
           ELSE /\ invoices' = Append(invoices, r.invoice)
                /\ calls' = Append(calls, r.calls)
                /\ pc' = IF i = Len(pdf_files) THEN "excel" ELSE "process"
                /\ UNCHANGED ret
    /\ UNCHANGED <<env, pdf_files, excel_fault, wb, timestamp, excel_path, attempts, saved, probe>>

\* lines 155-157
CreateExcel ==
    /\ pc = "excel"
    /\ \E fault \in Faults(invoices), now \in Timestamps :
          LET r == create_excel(invoices, fault)
          IN  /\ excel_fault' = fault
              /\ IF r.raised
                 THEN Return("False") /\ UNCHANGED <<wb, timestamp, excel_path>>
                 ELSE /\ wb' = r.wb
                      /\ timestamp' = now
                      /\ excel_path' = primary_path(now)
                      /\ pc' = "save"
                      /\ UNCHANGED ret
    /\ UNCHANGED <<env, pdf_files, invoices, calls, attempts, saved, probe>>

\* wb.save(path): None has no save; otherwise the file system decides
\* (writable) whether the file is written
Save(path, writable) ==
    LET ok == wb # None /\ writable
    IN  /\ attempts' = Append(attempts, [path |-> path, wb |-> wb,
                                         writable |-> writable, ok |-> ok])
        /\ saved' = IF ok THEN saved \cup {[path |-> path, wb |-> wb]} ELSE saved
        /\ IF ok THEN Return("True")
           ELSE IF pc = "save" THEN pc' = "fallback" /\ UNCHANGED ret
           ELSE Return("raised")

\* lines 161-164
SavePrimary ==
    /\ pc = "save"
    /\ \E writable \in BOOLEAN : Save(excel_path, writable)
    /\ UNCHANGED <<env, pdf_files, invoices, calls, excel_fault, wb, timestamp, excel_path,
                   probe>>

\* lines 165-171
SaveFallback ==
    /\ pc = "fallback"
    /\ \E writable \in BOOLEAN : Save(fallback_path(timestamp), writable)
    /\ UNCHANGED <<env, pdf_files, invoices, calls, excel_fault, wb, timestamp, excel_path,
                   probe>>

Next == Validate \/ ProcessPdf \/ CreateExcel \/ SavePrimary \/ SaveFallback

Spec == Init /\ [][Next]_vars

(***************************************************************************)
(* The pure methods on their own: one application per step.                *)
(***************************************************************************)
RECURSIVE SeqsUpTo(_, _)
SeqsUpTo(alphabet, n) ==
    IF n = 0 THEN {<<>>}
    ELSE LET shorter == SeqsUpTo(alphabet, n - 1)
         IN  shorter \cup {Append(q, c) : q \in shorter, c \in alphabet}

Brazilian == <<"1", ".", "2", "3", "4", ",", "5", "6">>

CommaOnly == <<"1", "2", "3", "4", ",", "5", "6">>

DotOnly == <<"1", ".", "2", "3", "4">>

Letters == <<"a", "b", "c">>

Noisy == <<"R", "$", " ", "1", ".", "0", "0", "0", ",", "0", "0">>

RawAlphabet == {"0", "1", ".", ",", "a"}

RawInputs ==
    {None} \cup {Str(q) : q \in SeqsUpTo(RawAlphabet, MaxRawLen)
                              \cup {Brazilian, CommaOnly, DotOnly, Letters, Noisy}}

NoRun == env = [pdf_dir_exists |-> FALSE, mkdir_ok |-> FALSE] /\ Start

UnchangedRun == UNCHANGED <<env, pc, pdf_files, invoices, calls, excel_fault, wb, timestamp,
                            excel_path, attempts, saved, ret>>

InitClean == NoRun /\ \E v \in RawInputs : probe = [Idle EXCEPT !.value = v]

CallCleanValue ==
    /\ probe.fn = "idle"
    /\ probe' = [probe EXCEPT !.fn = "clean_value", !.ret = clean_value(probe.value)]
    /\ UnchangedRun

SpecClean == InitClean /\ [][CallCleanValue]_vars

\* the claim's example list: a label-qualified pattern, then a bare number
BareNumber == Pat(<<>>, <<Plus(Digits)>>)

LabelThenBare == <<NUMBER[2], BareNumber>>

BareThenLabel == <<BareNumber, NUMBER[2]>>

PatternLists == {NUMBER, DATE, VALUE, LabelThenBare, BareThenLabel, <<>>}

\* "200 INVOICE #: 100": the bare number comes first in the text
BareFirst ==
    <<"2", "0", "0", " ", "I", "N", "V", "O", "I", "C", "E", " ", "#", ":", " ", "1", "0", "0">>

TextAlphabet == {"#", "1", "2", " "}

FindTexts ==
    SeqsUpTo(TextAlphabet, MaxTextLen)
        \cup {BareFirst, InvoicePage1, InvoicePage2, ZeroPage, BadValuePage}

InitFind ==
    /\ NoRun
    /\ \E text \in FindTexts, patterns \in PatternLists :
          probe = [Idle EXCEPT !.text = text, !.patterns = patterns]

CallFindPattern ==
    /\ probe.fn = "idle"
    /\ probe' = [probe EXCEPT !.fn = "find_pattern",
                              !.ret = find_pattern(probe.text, probe.patterns)]
    /\ UnchangedRun

SpecFind == InitFind /\ [][CallFindPattern]_vars

(***************************************************************************)
(* Properties of the batch step (Spec).                                    *)
(***************************************************************************)
Processed == 1..Len(invoices)

BatchDone == pc \in {"excel", "save", "fallback"} \/ (pc = "done" /\ pdf_files # <<>>)

\* pdfplumber gave no text: no page, or a single page without text
NoText(pdf) ==
    ~pdf.raises /\ (pdf.pages = <<>> \/ (Len(pdf.pages) = 1 /\ ~Truthy(pdf.pages[1])))

\* C1: the batch step gives exactly one record per globbed document, in the
\* order of the list, the i-th record naming the i-th document, whatever the
\* documents' extraction does; no document ends the run during the batch.
C1_OneRecordPerDocument ==
    /\ Len(invoices) <= Len(pdf_files)
    /\ \A i \in Processed : invoices[i].filename = pdf_files[i].name
    /\ BatchDone => Len(invoices) = Len(pdf_files)

C1_Witness ==
    /\ pc = "excel"
    /\ Len(invoices) = Len(pdf_files)
    /\ \E i, j, k \in Processed :
          /\ i < j
          /\ pdf_files[i].pdf.raises
          /\ NoText(pdf_files[j].pdf)
          /\ ~pdf_files[k].pdf.raises /\ ~NoText(pdf_files[k].pdf)

IsExtractionError(status) ==
    /\ Len(status) = 2
    /\ status[1] = "Erro: "
    /\ status[2] # ""

\* C2: a document whose text extraction raises gets a record whose status is
\* ExtractionError with the failure's non-empty message, not EmptyDocument,
\* and the documents after it are still processed.
C2_RaiseYieldsExtractionError ==
    /\ \A i \in Processed :
          pdf_files[i].pdf.raises =>
              IsExtractionError(invoices[i].status) /\ invoices[i].status # PdfVazio
    /\ BatchDone => Len(invoices) = Len(pdf_files)

\* C7: a document whose text comes back empty gets status EmptyDocument with
\* number, date and value absent, and process_pdf calls neither find_pattern
\* nor clean_value for it.
C7_EmptyTextShortCircuits ==
    \A i \in Processed :
        (NoText(pdf_files[i].pdf) \/ (pdf_files[i].pdf.raises /\ pdf_files[i].pdf.console_ok))
            => /\ invoices[i].status = PdfVazio
               /\ invoices[i].number = None
               /\ invoices[i].date = None
               /\ invoices[i].value = None
               /\ calls[i] = <<"extract_text">>

C7_Witness ==
    \E i, j \in Processed :
        /\ NoText(pdf_files[i].pdf)
        /\ invoices[i].status = PdfVazio
        /\ "find_pattern" \in {calls[j][n] : n \in 1..Len(calls[j])}

\* an exception was raised while the document was read or its fields logged
RaisedFor(pdf) == pdf.raises \/ (~NoText(pdf) /\ ~pdf.console_ok)

\* C10: a record's status differs from Processed exactly when no text was
\* extracted or an exception occurred for the document; a field that is not
\* found, or a value that does not normalize, leaves the status Processed.
C10_StatusIffUnrecoverable ==
    \A i \in Processed :
        (invoices[i].status # Processado)
            <=> (NoText(pdf_files[i].pdf) \/ RaisedFor(pdf_files[i].pdf))

C10_Witness ==
    \E i, j, k \in Processed :
        /\ invoices[i].status = Processado
        /\ invoices[i].number # None
        /\ invoices[i].date = None
        /\ invoices[i].value = None
        /\ invoices[j].status = Processado
        /\ invoices[j].number = None
        /\ invoices[k].status # Processado

(***************************************************************************)
(* Properties of the report and of the save (Spec).                        *)
(***************************************************************************)
\* a field's cell: the field when present, the sentinel exactly when absent
Rendered(cell, field) ==
    /\ field # None => cell = field
    /\ cell = NaoEncontrado <=> field = None

\* C8: to_row gives [number, date, value, source_id, status] in that order,
\* each of the first three cells being the field when it is present and the
\* "not found" sentinel exactly when it is absent; a present value is never
\* rendered as the sentinel.
C8_RowRendersFields ==
    \A i \in Processed :
        LET row == to_row(invoices[i])
        IN  /\ Len(row) = Len(ColumnLetters)
            /\ Rendered(row[1], invoices[i].number)
            /\ Rendered(row[2], invoices[i].date)
            /\ Rendered(row[3], invoices[i].value)
            /\ row[4] = Str(invoices[i].filename)
            /\ row[5] = Str(invoices[i].status)

HeaderRow ==
    << Str(<<"Número da fatura">>), Str(<<"Data de emissão">>), Str(<<"Valor da fatura">>),
       Str(<<"Nome do arquivo">>), Str(<<"Status">>) >>

\* row r of a worksheet, when all its five cells are written
SheetRow(cells, r) == [j \in 1..Len(ColumnLetters) |-> cells[<<r, j>>]]

\* the report of the claim: the header row, then one row per record in order
IsFullReport(book) ==
    /\ book # None
    /\ DOMAIN book.cells = (1..(Len(invoices) + 1)) \X (1..Len(ColumnLetters))
    /\ SheetRow(book.cells, 1) = HeaderRow
    /\ \A i \in Processed : SheetRow(book.cells, i + 1) = to_row(invoices[i])

\* C9: whenever create_excel completes for N records, the caller holds a
\* report whose row 1 is the five-column header and whose row i+1 is the row
\* of the i-th record: N+1 rows.
C9_ReportBuilt ==
    (pc = "save" /\ excel_fault = <<"none">>) => IsFullReport(wb)

Finished == pc = "done"

SavedFullReport ==
    \E file \in saved :
        /\ IsFullReport(file.wb)
        /\ file.path \in {excel_path, fallback_path(timestamp)}

SinkAccepts == \E n \in 1..Len(attempts) : attempts[n].writable

\* C3: a run ends either with the report of all records saved at the
\* primary or the fallback path and success reported, or with failure
\* reported and nothing saved; and it ends the first way when the directory
\* exists, a document was found and the file system accepts one of the saves.
C3_RunOutcome ==
    Finished =>
        /\ \/ ret = "True" /\ SavedFullReport
           \/ ret = "False" /\ saved = {}
        /\ (env.pdf_dir_exists /\ pdf_files # <<>> /\ SinkAccepts)
               => (ret = "True" /\ SavedFullReport)

\* C4: the primary path is tried first; the fallback is tried exactly when
\* the primary save failed, with the same workbook and at a different path;
\* run returns True only when one of the two saves succeeded.
C4_SaveTiers ==
    /\ Len(attempts) <= 2
    /\ attempts # <<>> =>
          /\ attempts[1].path = excel_path
          /\ SubSeq(excel_path, 1, Len(EXCEL_DIR)) = [i \in 1..Len(EXCEL_DIR) |-> <<EXCEL_DIR[i]>>]
    /\ Len(attempts) = 2 =>
          /\ ~attempts[1].ok
          /\ attempts[2].path # attempts[1].path
          /\ attempts[2].wb = attempts[1].wb
    /\ (Finished /\ attempts # <<>> /\ ~attempts[1].ok) => Len(attempts) = 2
    /\ pc = "fallback" => (Len(attempts) = 1 /\ ~attempts[1].ok)
    /\ ret = "True" =>
          \E n \in 1..Len(attempts) :
              attempts[n].ok /\ [path |-> attempts[n].path, wb |-> attempts[n].wb] \in saved

C4_Witness ==
    /\ Finished
    /\ ret = "True"
    /\ Len(attempts) = 2
    /\ attempts[2].ok

(***************************************************************************)
(* Properties of clean_value (SpecClean).                                  *)
(***************************************************************************)
Count(c, s) == Cardinality({i \in 1..Len(s) : s[i] = c})

RECURSIVE Pow10(_)
Pow10(n) == IF n = 0 THEN 1 ELSE 10 * Pow10(n - 1)

\* r is the decimal number that the digits-and-dots string s writes
IsDecimalOf(r, s) ==
    LET digits == SelectSeq(s, LAMBDA c : c \in Digits)
        dot == CHOOSE i \in 1..Len(s) : s[i] = "."
        places == IF Count(".", s) = 0 THEN 0 ELSE Len(s) - dot
    IN  IF Count(".", s) > 1 \/ digits = <<>> THEN r = None
        ELSE /\ r # None
             /\ r.e <= places
             /\ r.m * Pow10(places - r.e) = DigitsToNat(digits)
             /\ r.e = 0 \/ r.m % 10 # 0

\* the claim's steps 2 and 3 on a non-empty raw string
Canonical(raw) ==
    LET kept == SelectSeq(raw, LAMBDA c : c \in Digits \/ c = "." \/ c = ",")
        noDots == SelectSeq(kept, LAMBDA c : c # ".")
        AsDot(q) == [i \in 1..Len(q) |-> IF q[i] = "," THEN "." ELSE q[i]]
    IN  IF Count(",", kept) > 0 /\ Count(".", kept) > 0 THEN AsDot(noDots)
        ELSE IF Count(",", kept) > 0 THEN AsDot(kept)
        ELSE kept

\* C5: clean_value returns absent for an absent or empty input; otherwise it
\* keeps the digits, '.' and ',', drops the '.' and turns ',' into '.' when
\* both occur, turns ',' into '.' when only ',' occurs, and returns the
\* decimal parse of the result, absent when it does not parse.  "1.234,56"
\* and "1234,56" give 1234.56, "1.234" gives 1.234, "" and "abc" give absent.
C5_Normalize ==
    probe.fn = "clean_value" =>
        /\ (probe.value = None \/ probe.value = Str(<<>>)) => probe.ret = None
        /\ (probe.value # None /\ probe.value # Str(<<>>))
               => IsDecimalOf(probe.ret, Canonical(probe.value.s))
        /\ probe.value = Str(Brazilian) => probe.ret = Float(123456, 2)
        /\ probe.value = Str(CommaOnly) => probe.ret = Float(123456, 2)
        /\ probe.value = Str(DotOnly) => probe.ret = Float(1234, 3)
        /\ probe.value = Str(Letters) => probe.ret = None

C5_Witness ==
    /\ probe.fn = "clean_value"
    /\ probe.value = Str(DotOnly)
    /\ probe.ret = Float(1234, 3)

(***************************************************************************)
(* Properties of find_pattern (SpecFind).                                  *)
(***************************************************************************)
Matching(text, patterns) == {i \in 1..Len(patterns) : re_search(patterns[i], text).ok}

Min(S) == CHOOSE n \in S : \A k \in S : n <= k

\* C6: find_pattern returns group 1 of the earliest pattern of the list that
\* matches anywhere in the text, wherever later patterns would match, and
\* absent when none matches; with "Invoice #: 100" and a bare "200" in the
\* text and the list [label-qualified, bare-number] it returns "100".
C6_FirstPatternWins ==
    probe.fn = "find_pattern" =>
        LET hits == Matching(probe.text, probe.patterns)
        IN  /\ hits = {} <=> probe.ret = None
            /\ hits # {} =>
                  LET m == re_search(probe.patterns[Min(hits)], probe.text)
                  IN  probe.ret = Str(SubSeq(probe.text, m.gs + 1, m.end))
            /\ (probe.text = BareFirst /\ probe.patterns = LabelThenBare)
                  => probe.ret = Str(<<"1", "0", "0">>)

C6_Witness ==
    /\ probe.fn = "find_pattern"
    /\ probe.text = BareFirst
    /\ probe.patterns = LabelThenBare
    /\ probe.ret = Str(<<"1", "0", "0">>)
    /\ find_pattern(probe.text, BareThenLabel) = Str(<<"2", "0", "0">>)
====
